---- MODULE Spec2Model ----
(***************************************************************************)
(* Model of the movie pages of the repository: the home page (HomePage,    *)
(* getMovies, Movie), the movie detail page (MovieDetailPage with its two  *)
(* Suspense boundaries, MovieDetail/getMovie, MovieVideos/getVideos), the  *)
(* file-system routes of the two page files, the force-cache fetch cache   *)
(* and the remote movie API the components talk to.                        *)
(***************************************************************************)
EXTENDS Naturals, Sequences, FiniteSets, TLC

(***************************************************************************)
(* Bounds                                                                  *)
(***************************************************************************)
MaxRenders == 2    \* page requests (navigations) in one behaviour
MaxVersion == 1    \* the remote data changes at most this many times

(***************************************************************************)
(* JSON values as response.json() produces them, plus JavaScript's         *)
(* undefined (the value of a property the record does not have).           *)
(***************************************************************************)
JNull == [t |-> "null"]
JUndef == [t |-> "undefined"]
JStr(s) == [t |-> "str", s |-> s]
JNum(n) == [t |-> "num", n |-> n]
JArr(a) == [t |-> "arr", a |-> a]
JObj(o) == [t |-> "obj", o |-> o]      \* o: sequence of <<key, value>>

\* movie.key on an untyped record: the value of the first member named key,
\* undefined when the record has none
Get(obj, key) ==
    IF \E i \in 1..Len(obj.o) : obj.o[i][1] = key
    THEN obj.o[CHOOSE i \in 1..Len(obj.o) :
                  /\ obj.o[i][1] = key
                  /\ \A j \in 1..(i - 1) : obj.o[j][1] # key][2]
    ELSE JUndef

\* a ?? b : b exactly when a is null or undefined
NullishMutant(a, b) == IF a \in {JNull, JUndef, JStr("")} THEN b ELSE a
Nullish(a, b) == IF a \in {JNull, JUndef} THEN b ELSE a

\* `${v}` inside a template literal
TemplateStr(v) ==
    CASE v.t = "str" -> v.s
      [] v.t = "num" -> ToString(v.n)
      [] v.t = "null" -> "null"
      [] OTHER -> "undefined"

RECURSIVE Join(_, _)
Join(strs, sep) ==
    IF Len(strs) = 0 THEN ""
    ELSE IF Len(strs) = 1 THEN strs[1]
    ELSE strs[1] \o sep \o Join(Tail(strs), sep)

\* JSON.stringify(v) for the JSON values above
JSONstringifyMutant(v) ==
    CASE v.t = "str" -> v.s
      [] v.t = "num" -> ToString(v.n)
      [] v.t = "arr" -> ""
      [] OTHER -> "[object Object]"

RECURSIVE JSONstringify(_)
JSONstringify(v) ==
    CASE v.t = "str" -> "\"" \o v.s \o "\""
      [] v.t = "num" -> ToString(v.n)
      [] v.t = "null" -> "null"
      [] v.t = "arr" ->
           "[" \o Join([i \in 1..Len(v.a) |-> JSONstringify(v.a[i])], ",") \o "]"
      [] v.t = "obj" ->
           "{" \o Join([i \in 1..Len(v.o) |->
                          "\"" \o v.o[i][1] \o "\":" \o JSONstringify(v.o[i][2])],
                       ",") \o "}"
      [] OTHER -> "undefined"

(***************************************************************************)
(* The remote movie API.  Its data exists in versions 0..MaxVersion; the   *)
(* bodies are what the API would answer for each URL at each version.      *)
(***************************************************************************)
API_URL == "{API_URL}"

Ids == {"1", "2"}

\* movie summaries with every shape of poster_path / backdrop_path
Summary(id, title, members) ==
    JObj(<<<<"id", id>>, <<"title", JStr(title)>>>> \o members)

MovieLists ==
    << << Summary(JStr("1"), "Alpha", << <<"poster_path", JStr("/p1.jpg")>>,
                                         <<"backdrop_path", JStr("/b1.jpg")>> >>),
          Summary(JNum(2), "Beta", << <<"poster_path", JNull>>,
                                      <<"backdrop_path", JStr("/b2.jpg")>> >>) >>,
       << Summary(JStr("2"), "Gamma", << <<"poster_path", JStr("")>>,
                                         <<"backdrop_path", JStr("/b3.jpg")>> >>),
          Summary(JStr("1"), "Delta", << >>),
          Summary(JNum(1), "Alpha", << <<"poster_path", JNull>>,
                                       <<"backdrop_path", JNull>> >>) >>,
       << >> >>

ApiMovies(v) == JArr(MovieLists[(v % Len(MovieLists)) + 1])
ApiMovie(id, v) ==
    JObj(<< <<"id", JStr(id)>>, <<"title", JStr("Movie " \o id)>>,
            <<"revision", JNum(v)>> >>)
ApiVideos(id, v) ==
    JArr(<< JObj(<< <<"key", JStr("video-" \o id)>>, <<"revision", JNum(v)>> >>) >>)

(***************************************************************************)
(* The requests of the three fetching functions                            *)
(***************************************************************************)
\* getMovies: fetch(API_URL, { cache: "force-cache" })
getMoviesUrl == API_URL

\* getMovie: fetch(`${API_URL}/${id}`, { cache: "force-cache" })
getMovieUrlMutant(id) == API_URL \o "/" \o id \o "/videos"
getMovieUrl(id) == API_URL \o "/" \o id

\* getVideos: fetch(`${API_URL}/${id}/videos`, { cache: "force-cache" })
getVideosUrl(id) == API_URL \o "/" \o id \o "/videos"

\* every URL of the remote API
Urls == {API_URL} \cup {API_URL \o "/" \o id : id \in Ids}
                  \cup {API_URL \o "/" \o id \o "/videos" : id \in Ids}

\* what the remote API answers for url while its data is at version v
Api(url, v) ==
    IF url = API_URL THEN ApiMovies(v)
    ELSE IF \E id \in Ids : url = API_URL \o "/" \o id
         THEN ApiMovie(CHOOSE id \in Ids : url = API_URL \o "/" \o id, v)
         ELSE ApiVideos(CHOOSE id \in Ids : url = API_URL \o "/" \o id \o "/videos", v)

(***************************************************************************)
(* File-system routing.  A folder of a page file is a route group "(x)",   *)
(* a dynamic segment "[x]" or a static segment "x".                        *)
(***************************************************************************)
Group(n) == [kind |-> "group", name |-> n]
Dynamic(n) == [kind |-> "dynamic", name |-> n]
Static(n) == [kind |-> "static", name |-> n]

\* app/(home)/page.tsx
HomePageFile == << Group("home") >>
\* app/(movies)/movies/[id]/page.tsx
MovieDetailPageFile == << Group("movies"), Static("movies"), Dynamic("id") >>

PageFiles == {HomePageFile, MovieDetailPageFile}

\* the route of a page file: its folders without the route groups
RouteOfMutant(file) == file
RouteOf(file) == SelectSeq(file, LAMBDA seg : seg.kind # "group")

SegmentMatches(seg, s) ==
    CASE seg.kind = "static" -> s = seg.name
      [] seg.kind = "dynamic" -> TRUE
      [] OTHER -> s = "(" \o seg.name \o ")"

Matches(route, url) ==
    /\ Len(route) = Len(url)
    /\ \A i \in 1..Len(route) : SegmentMatches(route[i], url[i])

\* the page files that serve url
Serving(url) == {f \in PageFiles : Matches(RouteOf(f), url)}

\* the value of the dynamic segment `name` of the route of file in url
Param(file, url, name) ==
    url[CHOOSE i \in 1..Len(RouteOf(file)) :
            RouteOf(file)[i] = Dynamic(name)]

(***************************************************************************)
(* Markup                                                                  *)
(***************************************************************************)
NoMarkup == [kind |-> "none"]
NoData == [t |-> "none"]

\* a text child {v}: null and undefined render nothing
Text(v) == IF v \in {JNull, JUndef} THEN "" ELSE TemplateStr(v)

\* `/movies/${id}`
MoviePath(id) == << "movies", TemplateStr(id) >>

\* Movie({ id, poster_path, title })
MovieMutant(p) ==
    [ img  |-> [ src |-> Text(Nullish(p.poster_path, JStr(""))),
                 alt |-> Text(p.title),
                 onClick |-> << "movies" >> ],
      link |-> [ href |-> MoviePath(p.id), text |-> Text(p.title) ] ]
Movie(p) ==
    [ img  |-> [ src |-> Text(Nullish(p.poster_path, JStr(""))),
                 alt |-> Text(p.title),
                 onClick |-> MoviePath(p.id) ],
      link |-> [ href |-> MoviePath(p.id), text |-> Text(p.title) ] ]

\* the props HomePage gives the Movie of one record
MoviePropsMutant(movie) ==
    [ id |-> Get(movie, "id"),
      title |-> Get(movie, "title"),
      poster_path |-> Nullish(Get(movie, "backdrop_path"),
                              Get(movie, "poster_path")) ]
MovieProps(movie) ==
    [ id |-> Get(movie, "id"),
      title |-> Get(movie, "title"),
      poster_path |-> Nullish(Get(movie, "poster_path"),
                              Get(movie, "backdrop_path")) ]

\* HomePage's markup for the parsed list movies
HomePage(movies) ==
    [ kind |-> "content",
      container |-> "styles.container",
      children |-> [ i \in 1..Len(movies.a) |->
                       [ key |-> Get(movies.a[i], "id"),
                         props |-> MovieProps(movies.a[i]),
                         el |-> Movie(MovieProps(movies.a[i])) ] ] ]

\* the markup of the revision of HomePage that lists Links:
\* <h1>Hello NextJS</h1> and one <li key={movie.id}> per record
HomePageLinksMutant(movies) ==
    [ kind |-> "content",
      heading |-> "Hello NextJS",
      children |-> << >>,
      items |-> [ i \in 1..Len(movies.a) |->
                    [ key |-> Get(movies.a[Len(movies.a) + 1 - i], "id"),
                      link |-> [ href |-> MoviePath(Get(movies.a[Len(movies.a) + 1 - i], "id")),
                                 text |-> Text(Get(movies.a[Len(movies.a) + 1 - i], "title")) ] ] ] ]
HomePageLinks(movies) ==
    [ kind |-> "content",
      heading |-> "Hello NextJS",
      children |-> << >>,
      items |-> [ i \in 1..Len(movies.a) |->
                    [ key |-> Get(movies.a[i], "id"),
                      link |-> [ href |-> MoviePath(Get(movies.a[i], "id")),
                                 text |-> Text(Get(movies.a[i], "title")) ] ] ] ]

\* MovieDetail's markup: <h3>{JSON.stringify(movie)}</h3>
MovieDetail(movie) ==
    [kind |-> "content", tag |-> "h3", text |-> JSONstringify(movie)]

\* MovieVideos' markup: <h4>{JSON.stringify(videos)}</h4>
MovieVideosMutant(videos) == [kind |-> "content", tag |-> "h4", text |-> "[object Object]"]
MovieVideos(videos) ==
    [kind |-> "content", tag |-> "h4", text |-> JSONstringify(videos)]

\* the fallbacks of the two Suspense boundaries of MovieDetailPage
FallbackMutant(c) == [kind |-> "fallback", tag |-> "h1", text |-> "Loading Movie..."]
Fallback(c) ==
    [kind |-> "fallback", tag |-> "h1",
     text |-> IF c = "MovieDetail" THEN "Loading Movie..." ELSE "Loading Videos..."]

\* a render that ended with an error shows none of the component's markup
ErrorView == [kind |-> "error"]

(***************************************************************************)
(* The client-side Hello page: useState, useEffect and its render          *)
(***************************************************************************)
\* fetch("https://nomad-movies.nomadcoders.workers.dev/movies")
HelloUrl == "https://nomad-movies.nomadcoders.workers.dev/movies"

\* the dependency list of the effect: useEffect(() => { getMovies(); }, [])
HelloDeps == << >>
NoDeps == << "none" >>

\* an effect runs after the first render and after a render whose
\* dependency list differs from the one of the render before
EffectRunsMutant(prev, deps) == TRUE
EffectRuns(prev, deps) == prev = NoDeps \/ prev # deps

\* pc: "unmounted", "fetching", "setMovies" (between the two setState
\* calls), "done", "failed"; calls: the URLs getMovies has requested
HelloUnmounted ==
    [ pc |-> "unmounted", isLoading |-> TRUE, movies |-> JArr(<< >>),
      json |-> NoData, text |-> "", calls |-> << >>, deps |-> NoDeps,
      renders |-> 0 ]

\* one render of Hello from the state h, and the effect after it
Hello(h) ==
    [ h EXCEPT
        !.text = IF h.isLoading THEN "Loading Movies..." ELSE JSONstringify(h.movies),
        !.renders = @ + 1,
        !.calls = IF EffectRuns(h.deps, HelloDeps) THEN Append(@, HelloUrl) ELSE @,
        !.deps = HelloDeps ]

\* the first render: useState(true), useState([])
HelloMount == Hello([HelloUnmounted EXCEPT !.pc = "fetching"])

(***************************************************************************)
(* State                                                                   *)
(***************************************************************************)
Fetchers == {"HomePage", "MovieDetail", "MovieVideos"}
Children == {"MovieDetail", "MovieVideos"}
Components == Fetchers \cup {"Movie"}

NoPage == << Static("not-found") >>
NoId == "?"
NoEntry == [t |-> "none"]

VARIABLES
    route,          \* the URL path of the page request being served
    page,           \* the page file serving it, NoPage when none does
    renderNo,       \* number of page requests so far
    pagePc,         \* MovieDetailPage: "idle", "params" (awaiting params), "rendered"
    params,         \* the id MovieDetailPage read from params
    props,          \* the id prop each child of MovieDetailPage received
    pc,             \* per fetching component: "idle", "fetching", "done", "error"
    reqs,           \* per component: the URLs it requested in this render
    data,           \* per fetching component: the parsed body it awaited
    err,            \* per fetching component: "none", "rejected", "unparsable"
    view,           \* per fetching component: the markup displayed for it
    shell,          \* MovieDetailPage's outer <div> has been produced
    order,          \* children of MovieDetailPage in the order they settled
    cache,          \* the fetch cache: the stored body per URL
    net,            \* network requests that reached the remote API, per URL
    firstOk,        \* body of the first successful network response, per URL
    remoteVersion,  \* version of the remote API's data
    lastNav,        \* what caused the current page request, and its target
    homeRev,        \* the revision of the home page that serves the request
    selected,       \* the record whose entry the user selected, if any
    hello           \* the client-side Hello page: its React state and fetch

vars == << route, page, renderNo, pagePc, params, props, pc, reqs, data, err,
           view, shell, order, cache, net, firstOk, remoteVersion, lastNav,
           homeRev, selected, hello >>

Init ==
    /\ route = << >>
    /\ page = NoPage
    /\ renderNo = 0
    /\ pagePc = "idle"
    /\ params = NoId
    /\ props = [c \in Children |-> NoId]
    /\ pc = [c \in Fetchers |-> "idle"]
    /\ reqs = [c \in Components |-> << >>]
    /\ data = [c \in Fetchers |-> NoData]
    /\ err = [c \in Fetchers |-> "none"]
    /\ view = [c \in Fetchers |-> NoMarkup]
    /\ shell = FALSE
    /\ order = << >>
    /\ cache = [u \in Urls |-> NoEntry]
    /\ net = [u \in Urls |-> 0]
    /\ firstOk = [u \in Urls |-> NoEntry]
    /\ remoteVersion = 0
    /\ lastNav = [by |-> "none", target |-> << >>]
    /\ homeRev = "none"
    /\ selected = JUndef
    /\ hello = HelloUnmounted

(***************************************************************************)
(* Page requests                                                           *)
(***************************************************************************)
\* no render of the current page request is still awaiting something
Settled ==
    /\ hello.pc \notin {"fetching", "setMovies"}
    /\ pagePc # "params"
    /\ \A c \in Fetchers : pc[c] # "fetching"

\* the revisions of the home page: the client-side Hello, the HomePage that
\* lists Links and the HomePage that renders a Movie per record
HomeRevisions == {"hello", "links", "movies"}

\* the URLs a user may type
UserUrls == {<< >>, <<"movies">>, <<"(home)">>, <<"(movies)", "movies", "1">>}
            \cup {<<"movies", id>> : id \in Ids}

ServeMutant(url, by) ==
    /\ hello.pc \notin {"fetching", "setMovies"}
    /\ \A c \in Fetchers : pc[c] # "fetching"
    /\ pagePc # "params"
    /\ renderNo < MaxRenders
    /\ renderNo' = renderNo + 1
    /\ route' = url
    /\ lastNav' = [by |-> by, target |-> url]
    /\ page' = IF Serving(url) = {} THEN NoPage ELSE CHOOSE f \in Serving(url) : TRUE
    /\ params' = NoId
    /\ props' = [c \in Children |-> NoId]
    /\ data' = [c \in Fetchers |-> NoData]
    /\ err' = [c \in Fetchers |-> "none"]
    /\ view' = [c \in Fetchers |->
                  IF c = "HomePage" /\ page' = HomePageFile
                  THEN [kind |-> "content", container |-> "styles.container",
                        children |-> << >>]
                  ELSE NoMarkup]
    /\ shell' = FALSE
    /\ order' = << >>
    /\ pagePc' = IF page' = MovieDetailPageFile THEN "params" ELSE "idle"
    /\ homeRev' \in IF page' = HomePageFile THEN HomeRevisions ELSE {"none"}
    /\ hello' = IF homeRev' = "hello" THEN HelloMount ELSE HelloUnmounted
    /\ pc' = [c \in Fetchers |->
                IF c = "HomePage" /\ homeRev' \in {"links", "movies"}
                THEN "fetching" ELSE "idle"]
    /\ reqs' = [c \in Components |->
                  IF c = "HomePage" /\ homeRev' \in {"links", "movies"}
                  THEN << getMoviesUrl >> ELSE << >>]
    /\ UNCHANGED << cache, net, firstOk, remoteVersion >>

\* The router serves url: the page file whose route matches is rendered up
\* to its first await.  HomePage awaits getMovies(), MovieDetailPage awaits
\* params; both produce no markup before that.
Serve(url, by) ==
    /\ Settled
    /\ renderNo < MaxRenders
    /\ renderNo' = renderNo + 1
    /\ route' = url
    /\ lastNav' = [by |-> by, target |-> url]
    /\ page' = IF Serving(url) = {} THEN NoPage ELSE CHOOSE f \in Serving(url) : TRUE
    /\ params' = NoId
    /\ props' = [c \in Children |-> NoId]
    /\ data' = [c \in Fetchers |-> NoData]
    /\ err' = [c \in Fetchers |-> "none"]
    /\ view' = [c \in Fetchers |-> NoMarkup]
    /\ shell' = FALSE
    /\ order' = << >>
    /\ pagePc' = IF page' = MovieDetailPageFile THEN "params" ELSE "idle"
    /\ homeRev' \in IF page' = HomePageFile THEN HomeRevisions ELSE {"none"}
    /\ hello' = IF homeRev' = "hello" THEN HelloMount ELSE HelloUnmounted
    /\ pc' = [c \in Fetchers |->
                IF c = "HomePage" /\ homeRev' \in {"links", "movies"}
                THEN "fetching" ELSE "idle"]
    /\ reqs' = [c \in Components |->
                  IF c = "HomePage" /\ homeRev' \in {"links", "movies"}
                  THEN << getMoviesUrl >> ELSE << >>]
    /\ UNCHANGED << cache, net, firstOk, remoteVersion >>

\* the user opens a URL directly
Navigate == \E url \in UserUrls : Serve(url, "user") /\ selected' = JUndef

\* the record of the API list response behind the i-th entry of the home page
Record(i) == data["HomePage"].a[i]

\* the Movie instances HomePage displays
Movies == IF view["HomePage"].kind = "content"
          THEN view["HomePage"].children ELSE << >>

\* Movie: onClick of the poster image, router.push(`/movies/${id}`)
ClickPoster ==
    \E i \in 1..Len(Movies) :
       /\ Serve(Movies[i].el.img.onClick, "Movie.onClick")
       /\ selected' = Record(i)

\* Movie: the title Link, href={`/movies/${id}`}
FollowLink ==
    \E i \in 1..Len(Movies) :
       /\ Serve(Movies[i].el.link.href, "Movie.Link")
       /\ selected' = Record(i)

\* the <li> entries of the revision of HomePage that lists Links
Items == IF view["HomePage"].kind = "content" /\ homeRev = "links"
         THEN view["HomePage"].items ELSE << >>

\* HomePage: the Link of an entry, href={`/movies/${movie.id}`}
FollowItemLink ==
    \E i \in 1..Len(Items) :
       /\ Serve(Items[i].link.href, "HomePage.Link")
       /\ selected' = Record(i)

(***************************************************************************)
(* MovieDetailPage                                                         *)
(***************************************************************************)
\* params resolves: the page returns its <div> with the two Suspense
\* boundaries; rendering the children calls getMovie(id) and getVideos(id),
\* each child suspends on its fetch and its boundary shows the fallback.
ChildIdMutant(c, id) == IF c = "MovieVideos" /\ id = "1" THEN "2" ELSE id
ChildId(c, id) == id

MovieDetailPageMutant ==
    /\ pagePc = "params"
    /\ pagePc' = "rendered"
    /\ params' = Param(page, route, "id")
    /\ shell' = TRUE
    /\ props' = [c \in Children |-> IF c = "MovieDetail" THEN params' ELSE NoId]
    /\ pc' = [pc EXCEPT !["MovieDetail"] = "fetching"]
    /\ reqs' = [reqs EXCEPT !["MovieDetail"] = << getMovieUrl(params') >>]
    /\ view' = [view EXCEPT !["MovieDetail"] = Fallback("MovieDetail"),
                            !["MovieVideos"] = Fallback("MovieVideos")]
    /\ UNCHANGED << route, page, renderNo, data, err, order, cache, net, firstOk,
                    remoteVersion, lastNav, homeRev, selected, hello >>

MovieDetailPage ==
    /\ pagePc = "params"
    /\ pagePc' = "rendered"
    /\ params' = Param(page, route, "id")
    /\ shell' = TRUE
    /\ props' = [c \in Children |-> ChildId(c, params')]
    /\ pc' = [pc EXCEPT !["MovieDetail"] = "fetching", !["MovieVideos"] = "fetching"]
    /\ reqs' = [reqs EXCEPT !["MovieDetail"] = << getMovieUrl(props'["MovieDetail"]) >>,
                            !["MovieVideos"] = << getVideosUrl(props'["MovieVideos"]) >>]
    /\ view' = [view EXCEPT !["MovieDetail"] = Fallback("MovieDetail"),
                            !["MovieVideos"] = Fallback("MovieVideos")]
    /\ UNCHANGED << route, page, renderNo, data, err, order, cache, net, firstOk,
                    remoteVersion, lastNav, homeRev, selected, hello >>

(***************************************************************************)
(* fetch with cache: "force-cache", response.json() and the render that    *)
(* follows the await                                                       *)
(***************************************************************************)
\* the markup a component returns for the body it awaited
Render(c, body) ==
    CASE c = "HomePage" ->
           IF homeRev = "links" THEN HomePageLinks(body) ELSE HomePage(body)
      [] c = "MovieDetail" -> MovieDetail(body)
      [] OTHER -> MovieVideos(body)

Url(c) == reqs[c][Len(reqs[c])]

Settle(c) == order' = IF c \in Children THEN Append(order, c) ELSE order

\* the component's await returns body: it renders and is done
Resume(c, body) ==
    /\ data' = [data EXCEPT ![c] = body]
    /\ view' = [view EXCEPT ![c] = Render(c, body)]
    /\ pc' = [pc EXCEPT ![c] = "done"]
    /\ Settle(c)
    /\ UNCHANGED << err, reqs >>

CacheHitMutant(c) ==
    /\ pc[c] \in {"fetching", "done"}
    /\ cache[Url(c)] # NoEntry
    /\ data' = [data EXCEPT ![c] = Api(Url(c), remoteVersion)]
    /\ view' = [view EXCEPT ![c] = Render(c, Api(Url(c), remoteVersion))]
    /\ pc' = [pc EXCEPT ![c] = "done"]
    /\ order' = IF c \in Children /\ pc[c] = "fetching" THEN Append(order, c) ELSE order
    /\ UNCHANGED << route, page, renderNo, pagePc, params, props, shell, lastNav, homeRev, selected, hello,
                    err, reqs, cache, net, firstOk, remoteVersion >>

\* the cache holds a response for the URL: no request reaches the network
CacheHit(c) ==
    /\ pc[c] = "fetching"
    /\ cache[Url(c)] # NoEntry
    /\ Resume(c, cache[Url(c)])
    /\ UNCHANGED << route, page, renderNo, pagePc, params, props, shell, lastNav, homeRev, selected, hello,
                    cache, net, firstOk, remoteVersion >>

FetchOkMutant(c) ==
    /\ pc[c] = "fetching"
    /\ cache[Url(c)] = NoEntry
    /\ net' = [net EXCEPT ![Url(c)] = @ + 1]
    /\ firstOk' = [firstOk EXCEPT ![Url(c)] =
                     IF @ = NoEntry THEN Api(Url(c), remoteVersion) ELSE @]
    /\ Resume(c, Api(Url(c), remoteVersion))
    /\ UNCHANGED << route, page, renderNo, pagePc, params, props, shell, lastNav, homeRev, selected, hello,
                    cache, remoteVersion >>

\* cache miss, the remote API answers with a JSON body, which is stored
FetchOk(c) ==
    /\ pc[c] = "fetching"
    /\ cache[Url(c)] = NoEntry
    /\ net' = [net EXCEPT ![Url(c)] = @ + 1]
    /\ cache' = [cache EXCEPT ![Url(c)] = Api(Url(c), remoteVersion)]
    /\ firstOk' = [firstOk EXCEPT ![Url(c)] =
                     IF @ = NoEntry THEN Api(Url(c), remoteVersion) ELSE @]
    /\ Resume(c, Api(Url(c), remoteVersion))
    /\ UNCHANGED << route, page, renderNo, pagePc, params, props, shell, lastNav, homeRev, selected, hello,
                    remoteVersion >>

FetchFailMutant(c, kind) ==
    /\ pc[c] = "fetching"
    /\ cache[Url(c)] = NoEntry
    /\ net' = [net EXCEPT ![Url(c)] = @ + 1]
    /\ IF Len(reqs[c]) < 2
       THEN /\ reqs' = [reqs EXCEPT ![c] = Append(@, Url(c))]
            /\ UNCHANGED << pc, err, view, order >>
       ELSE /\ pc' = [pc EXCEPT ![c] = "error"]
            /\ err' = [err EXCEPT ![c] = kind]
            /\ view' = [view EXCEPT ![c] = ErrorView]
            /\ Settle(c)
            /\ UNCHANGED reqs
    /\ UNCHANGED << route, page, renderNo, pagePc, params, props, shell, lastNav, homeRev, selected, hello,
                    data, cache, firstOk, remoteVersion >>

\* cache miss and the fetch fails: the request rejects, or the response has
\* a body response.json() cannot parse.  Nothing catches the error: the
\* component's render ends with it, and nothing is stored in the cache.
FetchFail(c, kind) ==
    /\ pc[c] = "fetching"
    /\ cache[Url(c)] = NoEntry
    /\ net' = [net EXCEPT ![Url(c)] = @ + 1]
    /\ pc' = [pc EXCEPT ![c] = "error"]
    /\ err' = [err EXCEPT ![c] = kind]
    /\ view' = [view EXCEPT ![c] = ErrorView]
    /\ Settle(c)
    /\ UNCHANGED << route, page, renderNo, pagePc, params, props, shell, lastNav, homeRev, selected, hello,
                    reqs, data, cache, firstOk, remoteVersion >>

(***************************************************************************)
(* Hello: the continuation of getMovies after its two awaits               *)
(***************************************************************************)
HelloUnchanged ==
    UNCHANGED << route, page, renderNo, pagePc, params, props, pc, reqs, data,
                 err, view, shell, order, cache, net, firstOk, remoteVersion,
                 lastNav, homeRev, selected >>

HelloSetMoviesMutant ==
    /\ hello.pc = "fetching"
    /\ hello' = Hello([hello EXCEPT !.json = ApiMovies(remoteVersion),
                                    !.isLoading = FALSE,
                                    !.pc = "setMovies"])
    /\ HelloUnchanged

\* the response arrived and was parsed: setMovies(json), Hello renders again
HelloSetMovies ==
    /\ hello.pc = "fetching"
    /\ hello' = Hello([hello EXCEPT !.json = ApiMovies(remoteVersion),
                                    !.movies = ApiMovies(remoteVersion),
                                    !.pc = "setMovies"])
    /\ HelloUnchanged

\* setIsLoading(false), Hello renders again
HelloSetIsLoading ==
    /\ hello.pc = "setMovies"
    /\ hello' = Hello([hello EXCEPT !.isLoading = FALSE, !.pc = "done"])
    /\ HelloUnchanged

\* the fetch rejects or the body cannot be parsed: getMovies() rejects,
\* nobody awaits it, and no state is set
HelloFail ==
    /\ hello.pc = "fetching"
    /\ hello' = [hello EXCEPT !.pc = "failed"]
    /\ HelloUnchanged

Hit == \E c \in Fetchers : CacheHit(c)
Ok == \E c \in Fetchers : FetchOk(c)
Rejected == \E c \in Fetchers : FetchFail(c, "rejected")
Unparsable == \E c \in Fetchers : FetchFail(c, "unparsable")

\* the remote API's data changes
RemoteUpdate ==
    /\ remoteVersion < MaxVersion
    /\ remoteVersion' = remoteVersion + 1
    /\ UNCHANGED << route, page, renderNo, pagePc, params, props, pc, reqs, data,
                    err, view, shell, order, cache, net, firstOk, lastNav,
                    homeRev, selected, hello >>

Next ==
    \/ Navigate
    \/ ClickPoster
    \/ FollowLink
    \/ FollowItemLink
    \/ MovieDetailPage
    \/ Hit
    \/ Ok
    \/ Rejected
    \/ Unparsable
    \/ RemoteUpdate
    \/ HelloSetMovies
    \/ HelloSetIsLoading
    \/ HelloFail

Spec == Init /\ [][Next]_vars

\* the remote API eventually answers every request, params resolves
Answer ==
    \/ MovieDetailPage
    \/ \E c \in Fetchers : CacheHit(c) \/ FetchOk(c) \/ FetchFail(c, "rejected")
                                       \/ FetchFail(c, "unparsable")

FairSpec == Spec /\ WF_vars(Answer)

(***************************************************************************)
(* Properties                                                              *)
(***************************************************************************)
SameRender == renderNo' = renderNo

\* C1: HomePage requests exactly API_URL, MovieDetail exactly API_URL/{id}
\* and MovieVideos exactly API_URL/{id}/videos, {id} being the id prop the
\* component received; Movie requests nothing, and nobody requests more
\* than that one URL in a render.
C1_RequestedUrls ==
    /\ \A i \in 1..Len(reqs["HomePage"]) : reqs["HomePage"][i] = API_URL
    /\ \A i \in 1..Len(reqs["MovieDetail"]) :
          reqs["MovieDetail"][i] = API_URL \o "/" \o props["MovieDetail"]
    /\ \A i \in 1..Len(reqs["MovieVideos"]) :
          reqs["MovieVideos"][i] = API_URL \o "/" \o props["MovieVideos"] \o "/videos"
    /\ reqs["Movie"] = << >>
    /\ \A c \in Fetchers : pc[c] # "idle" => Len(reqs[c]) = 1
    /\ \A u \in Urls : net[u] > 0 =>
          \/ u = API_URL
          \/ \E id \in Ids : u \in {API_URL \o "/" \o id, API_URL \o "/" \o id \o "/videos"}

C1_Witness ==
    /\ props["MovieDetail"] = "2"
    /\ pc["MovieDetail"] = "done"
    /\ pc["MovieVideos"] = "done"
    /\ net[API_URL] > 0

HomeDone == pc["HomePage"] = "done"

\* C2 as stated: id, title and poster path of every entry are the values
\* of the record's id, title and poster_path, unchanged.
C2_Original ==
    HomeDone =>
      \A i \in 1..Len(Movies) :
        /\ Movies[i].props.id = Get(Record(i), "id")
        /\ Movies[i].props.title = Get(Record(i), "title")
        /\ Movies[i].props.poster_path = Get(Record(i), "poster_path")
        /\ Movies[i].el.img.src = Text(Get(Record(i), "poster_path"))

\* C2 amended: id and title of every entry are the record's, unchanged; the
\* poster path is the record's poster_path unchanged whenever that is
\* neither null nor undefined (otherwise another value is substituted).
C2_PassThrough ==
    (HomeDone /\ homeRev = "movies") =>
      /\ Len(Movies) = Len(data["HomePage"].a)
      /\ \A i \in 1..Len(Movies) :
           /\ Movies[i].props.id = Get(Record(i), "id")
           /\ Movies[i].props.title = Get(Record(i), "title")
           /\ Movies[i].el.link.text = Text(Get(Record(i), "title"))
           /\ Movies[i].el.img.alt = Text(Get(Record(i), "title"))
           /\ Movies[i].el.link.href = <<"movies", TemplateStr(Get(Record(i), "id"))>>
           /\ Get(Record(i), "poster_path") \notin {JNull, JUndef} =>
                /\ Movies[i].props.poster_path = Get(Record(i), "poster_path")
                /\ Movies[i].el.img.src = Get(Record(i), "poster_path").s

C2_Witness ==
    /\ HomeDone
    /\ \E i \in 1..Len(Movies) : Get(Record(i), "poster_path") = JStr("")
    /\ \E i \in 1..Len(Movies) : Get(Record(i), "poster_path") = JUndef

\* C3: a failed fetch is unhandled: the render that made it has made that
\* one request only, shows neither the component's content nor a fallback,
\* holds no data and has ended with the error; while the page request
\* lasts it stays so and requests nothing more.
C3_FailureUnhandled ==
    /\ [](\A c \in Fetchers :
            pc[c] = "error" <=> err[c] \in {"rejected", "unparsable"})
    /\ [](\A c \in Fetchers :
            pc[c] = "error" =>
              /\ Len(reqs[c]) = 1
              /\ data[c] = NoData
              /\ view[c].kind \notin {"content", "fallback"})
    /\ [][\A c \in Fetchers :
            (pc[c] = "error" /\ SameRender) =>
              /\ pc'[c] = "error"
              /\ reqs'[c] = reqs[c]]_vars

C3_Witness ==
    /\ pc["MovieVideos"] = "error"
    /\ err["MovieVideos"] = "unparsable"
    /\ pc["MovieDetail"] = "done"

\* a Movie is rendered when the home page displays at least one
Rendered(c) == IF c = "Movie" THEN Len(Movies) > 0 ELSE pc[c] \in {"done", "error"}

\* C4 as stated: rendering any of Movie, MovieDetail, MovieVideos and the
\* home page issues a fetch, and none of them triggers a navigation.
C4_Original ==
    /\ \A c \in Components : Rendered(c) => Len(reqs[c]) > 0
    /\ lastNav.by \notin {"Movie.onClick", "HomePage", "MovieDetail", "MovieVideos"}

\* C4 amended: MovieDetail, MovieVideos and the home page each issue one
\* fetch, await its body and interpolate it into markup, and trigger no
\* navigation; Movie issues no fetch, renders its props, and navigates to
\* /movies/{id} when its poster is clicked.
C4_FetchAndInterpolate ==
    /\ \A c \in Fetchers : Rendered(c) => Len(reqs[c]) = 1
    /\ \A c \in Fetchers : pc[c] = "done" =>
          /\ data[c] = cache[reqs[c][1]]
          /\ view[c].kind = "content"
    /\ pc["MovieDetail"] = "done" =>
          view["MovieDetail"].text = JSONstringify(data["MovieDetail"])
    /\ pc["MovieVideos"] = "done" =>
          view["MovieVideos"].text = JSONstringify(data["MovieVideos"])
    /\ reqs["Movie"] = << >>
    /\ lastNav.by \in {"none", "user", "Movie.onClick", "Movie.Link", "HomePage.Link"}
    /\ lastNav.by = "Movie.onClick" =>
          \E id \in Ids : lastNav.target = <<"movies", id>>

C4_Witness ==
    /\ lastNav.by = "Movie.onClick"
    /\ pc["MovieDetail"] = "done"
    /\ pc["MovieVideos"] = "done"

\* C5: on the movie detail page each Suspense boundary shows its fallback
\* ('Loading Movie...' / 'Loading Videos...') in every state in which its
\* child's fetch is pending and the child's content in every state after it
\* resolved; content is never shown before, the fallback never again after.
C5_SuspenseBoundaries ==
    /\ [](pc["MovieDetail"] = "fetching" =>
            view["MovieDetail"] =
              [kind |-> "fallback", tag |-> "h1", text |-> "Loading Movie..."])
    /\ [](pc["MovieVideos"] = "fetching" =>
            view["MovieVideos"] =
              [kind |-> "fallback", tag |-> "h1", text |-> "Loading Videos..."])
    /\ [](\A c \in Children : view[c].kind = "content" <=> pc[c] = "done")
    /\ [][\A c \in Children :
            (view[c].kind = "content" /\ SameRender) => view'[c] = view[c]]_vars

C5_Witness ==
    /\ pc["MovieDetail"] = "done"
    /\ view["MovieDetail"].kind = "content"
    /\ pc["MovieVideos"] = "fetching"
    /\ view["MovieVideos"].kind = "fallback"

\* the page MovieDetailPage ends with when both fetches succeed for id
FinalPage(id) ==
    [c \in Children |->
       IF c = "MovieDetail"
       THEN [kind |-> "content", tag |-> "h3",
             text |-> JSONstringify(cache[API_URL \o "/" \o id])]
       ELSE [kind |-> "content", tag |-> "h4",
             text |-> JSONstringify(cache[API_URL \o "/" \o id \o "/videos"])]]

\* C6: the movie fetch and the videos fetch are unordered: both are started
\* by the same render of MovieDetailPage, a boundary shows its content as
\* soon as its own fetch resolved whatever the state of the other, and the
\* page with both resolved is the same whichever resolved first.
C6_NoOrdering ==
    /\ pc["MovieDetail"] = "idle" <=> pc["MovieVideos"] = "idle"
    /\ pagePc = "rendered" => \A c \in Children : pc[c] # "idle"
    /\ \A c \in Children : pc[c] = "done" => view[c].kind = "content"
    /\ (\A c \in Children : pc[c] = "done") =>
          /\ order \in {<<"MovieDetail", "MovieVideos">>, <<"MovieVideos", "MovieDetail">>}
          /\ [c \in Children |-> view[c]] = FinalPage(params)

C6_Witness ==
    /\ order = <<"MovieVideos">>
    /\ pc["MovieVideos"] = "done"
    /\ view["MovieVideos"].kind = "content"
    /\ pc["MovieDetail"] = "fetching"

C8_Original ==
    [](\A c \in Fetchers :
         pc[c] = "fetching" => <>(pc[c] = "done" \/ err[c] = "rejected"))

\* C8 amended: the remote API answering every request, every render
\* eventually reaches the done state with its content displayed, or, when
\* the answer is a failure, ends with that error; once done, its displayed
\* content never changes again.
C8_FetchRenderDone ==
    /\ [](/\ \A c \in Fetchers :
               pc[c] = "fetching" =>
                 <>(\/ pc[c] = "done" /\ view[c].kind = "content"
                    \/ pc[c] = "error" /\ err[c] # "none")
          /\ pagePc = "params" => <>(pagePc = "rendered"))
    /\ [][\A c \in Fetchers :
            (pc[c] = "done" /\ SameRender) =>
              /\ pc'[c] = "done"
              /\ view'[c] = view[c]
              /\ data'[c] = data[c]]_vars

C8_Witness ==
    /\ pc["HomePage"] = "done"
    /\ view["HomePage"].kind = "content"
    /\ remoteVersion = 1
    /\ data["HomePage"] = ApiMovies(0)
    /\ renderNo = 1

\* C9: HomePage produces no markup at all until getMovies has resolved;
\* MovieDetailPage produces its outer markup with both fallbacks as soon as
\* params has resolved, before either of its two fetches resolves.
C9_Blocking ==
    /\ [](pc["HomePage"] = "fetching" => view["HomePage"] = NoMarkup)
    /\ [](page = HomePageFile /\ view["HomePage"].kind = "content"
            => pc["HomePage"] = "done")
    /\ [](pagePc = "params" =>
            /\ ~shell
            /\ \A c \in Children : view[c] = NoMarkup /\ pc[c] = "idle")
    /\ [](pagePc = "rendered" => shell)
    /\ [][(pagePc = "params" /\ pagePc' = "rendered") =>
            /\ shell'
            /\ \A c \in Children : view'[c].kind = "fallback" /\ pc'[c] = "fetching"]_vars

C9_Witness ==
    /\ shell
    /\ \A c \in Children : pc[c] = "fetching" /\ view[c].kind = "fallback"

\* C10: route groups are not part of the URL: app/(home)/page.tsx is served
\* at '/', app/(movies)/movies/[id]/page.tsx at '/movies/{id}', and no two
\* page files serve the same URL.
C10_RouteGroups ==
    renderNo > 0 =>
      /\ page = HomePageFile <=> route = << >>
      /\ page = MovieDetailPageFile <=> (Len(route) = 2 /\ route[1] = "movies")
      /\ pagePc = "rendered" => params = route[2]
      /\ Cardinality(Serving(route)) <= 1
      /\ page = NoPage <=> Serving(route) = {}

C10_Witness ==
    /\ page = MovieDetailPageFile
    /\ route = <<"movies", "2">>
    /\ params = "2"
    /\ lastNav.by = "user"

\* C11: for every list the API returns, HomePage renders exactly one entry
\* per record, in the order of the response, none dropped, duplicated or
\* reordered; the i-th entry is keyed by the i-th record's id and carries
\* its title and a link to /movies/{its id}.
C11_OneEntryPerRecord ==
    HomeDone =>
      /\ data["HomePage"] = cache[API_URL]
      /\ homeRev = "links" =>
           /\ Len(Items) = Len(data["HomePage"].a)
           /\ \A i \in 1..Len(Items) :
                /\ Items[i].key = Get(Record(i), "id")
                /\ Items[i].link.text = Text(Get(Record(i), "title"))
                /\ Items[i].link.href = <<"movies", TemplateStr(Get(Record(i), "id"))>>
      /\ homeRev = "movies" =>
           /\ Len(Movies) = Len(data["HomePage"].a)
           /\ \A i \in 1..Len(Movies) :
                /\ Movies[i].key = Get(Record(i), "id")
                /\ Movies[i].el.link.text = Text(Get(Record(i), "title"))
                /\ Movies[i].el.link.href = <<"movies", TemplateStr(Get(Record(i), "id"))>>

C11_Witness ==
    /\ HomeDone
    /\ homeRev = "links"
    /\ Len(Items) = 3
    /\ Items[1].link.text = "Gamma"
    /\ Items[3].link.href = <<"movies", "1">>

FromLink == lastNav.by \in {"Movie.Link", "HomePage.Link"}

\* C12: following a link the home page renders for the movie with id X
\* opens the detail page with route parameter id = X; MovieDetailPage
\* passes that id to both MovieDetail and MovieVideos, so the two requests
\* of one detail page are API_URL/X and API_URL/X/videos, X being the id of
\* the entry the user selected.
C12_RoundTrip ==
    /\ FromLink =>
         /\ page = MovieDetailPageFile
         /\ route = <<"movies", TemplateStr(Get(selected, "id"))>>
         /\ pagePc = "rendered" => params = TemplateStr(Get(selected, "id"))
    /\ pagePc = "rendered" =>
         /\ params = route[2]
         /\ props["MovieDetail"] = params
         /\ props["MovieVideos"] = params
         /\ reqs["MovieDetail"] = << API_URL \o "/" \o params >>
         /\ reqs["MovieVideos"] = << API_URL \o "/" \o params \o "/videos" >>

C12_Witness ==
    /\ lastNav.by = "HomePage.Link"
    /\ Get(selected, "title") = JStr("Alpha")
    /\ params = "1"
    /\ pc["MovieDetail"] = "done"
    /\ pc["MovieVideos"] = "done"

\* C13: for every Movie instance the poster's onClick (router.push) and the
\* title Link have the same target /movies/{id}, id being the instance's id
\* prop; whichever of the two the user takes, the route is that target.
C13_SameTarget ==
    /\ \A i \in 1..Len(Movies) :
         /\ Movies[i].el.img.onClick = <<"movies", TemplateStr(Movies[i].props.id)>>
         /\ Movies[i].el.link.href = <<"movies", TemplateStr(Movies[i].props.id)>>
    /\ lastNav.by \in {"Movie.onClick", "Movie.Link"} =>
         /\ route = <<"movies", TemplateStr(Get(selected, "id"))>>
         /\ page = MovieDetailPageFile

C13_Witness ==
    /\ lastNav.by = "Movie.onClick"
    /\ Get(selected, "id") = JNum(2)
    /\ route = <<"movies", "2">>
    /\ pagePc = "rendered"

Present(v) == v \notin {JNull, JUndef}

\* C14: the image source of a Movie is the record's poster_path if that is
\* neither null nor undefined, otherwise its backdrop_path if that is
\* neither null nor undefined, otherwise the empty string; an empty-string
\* poster_path is kept and does not fall back to backdrop_path.
C14_PosterFallback ==
    (HomeDone /\ homeRev = "movies") =>
      \A i \in 1..Len(Movies) :
        LET poster == Get(Record(i), "poster_path")
            backdrop == Get(Record(i), "backdrop_path")
        IN  /\ Present(poster) => Movies[i].el.img.src = poster.s
            /\ (~Present(poster) /\ Present(backdrop)) =>
                  Movies[i].el.img.src = backdrop.s
            /\ (~Present(poster) /\ ~Present(backdrop)) =>
                  Movies[i].el.img.src = ""
            /\ poster = JStr("") => Movies[i].el.img.src = ""

C14_Witness ==
    /\ HomeDone
    /\ homeRev = "movies"
    /\ Len(Movies) = 3
    /\ Get(Record(1), "poster_path") = JStr("")
    /\ Present(Get(Record(1), "backdrop_path"))
    /\ Movies[1].el.img.src = ""
    /\ Get(Record(3), "poster_path") = JNull
    /\ Movies[3].el.img.src = ""

HelloMounted == hello.pc # "unmounted"

\* C15: in the Hello page isLoading starts true with movies empty; in every
\* state isLoading = false implies movies holds the parsed body of the
\* completed fetch; isLoading never goes from false back to true, so
\* 'Loading Movies...' is never displayed after the data has been displayed.
C15_LoadingThenMovies ==
    /\ [](HelloMounted =>
            /\ hello.pc = "fetching" =>
                 hello.isLoading /\ hello.movies = JArr(<< >>)
            /\ ~hello.isLoading =>
                 /\ hello.pc = "done"
                 /\ hello.json # NoData
                 /\ hello.movies = hello.json
            /\ hello.text = IF hello.isLoading THEN "Loading Movies..."
                            ELSE JSONstringify(hello.json))
    /\ [][(HelloMounted /\ SameRender) =>
            /\ ~hello.isLoading => ~hello'.isLoading
            /\ hello.text # "Loading Movies..." => hello'.text = hello.text]_vars

C15_Witness ==
    /\ hello.pc = "done"
    /\ ~hello.isLoading
    /\ Len(hello.movies.a) = 3
    /\ hello.text # "Loading Movies..."

\* C16: Hello calls getMovies exactly once per mount: the renders caused by
\* setMovies and setIsLoading do not run the effect again, and no sequence
\* of state updates leads to a second request.
C16_OneFetchPerMount ==
    /\ [](HelloMounted <=> homeRev = "hello")
    /\ [](HelloMounted =>
            hello.calls = << "https://nomad-movies.nomadcoders.workers.dev/movies" >>)
    /\ [][(HelloMounted /\ SameRender) => hello'.calls = hello.calls]_vars

C16_Witness ==
    /\ hello.pc = "done"
    /\ hello.renders = 3
    /\ Len(hello.calls) = 1

\* the JSON text of the body the remote API returns for API_URL/{id} and
\* for API_URL/{id}/videos while its data is at version v
MovieJson(id, v) ==
    "{\"id\":\"" \o id \o "\",\"title\":\"Movie " \o id
                 \o "\",\"revision\":" \o ToString(v) \o "}"
VideosJson(id, v) ==
    "[{\"key\":\"video-" \o id \o "\",\"revision\":" \o ToString(v) \o "}]"

\* C17: the text MovieDetail renders is exactly the JSON serialization of
\* the body returned for API_URL/{id}, the text MovieVideos renders exactly
\* that of the body returned for API_URL/{id}/videos, {id} being the id of
\* the page; in no interleaving are the bodies swapped between the two
\* components or taken from a request for another id.
C17_OwnBody ==
    /\ pc["MovieDetail"] = "done" =>
         /\ props["MovieDetail"] = route[2]
         /\ data["MovieDetail"] = firstOk[API_URL \o "/" \o route[2]]
         /\ \E v \in 0..remoteVersion :
              /\ data["MovieDetail"] = ApiMovie(route[2], v)
              /\ view["MovieDetail"] =
                   [kind |-> "content", tag |-> "h3", text |-> MovieJson(route[2], v)]
    /\ pc["MovieVideos"] = "done" =>
         /\ props["MovieVideos"] = route[2]
         /\ data["MovieVideos"] = firstOk[API_URL \o "/" \o route[2] \o "/videos"]
         /\ \E v \in 0..remoteVersion :
              /\ data["MovieVideos"] = ApiVideos(route[2], v)
              /\ view["MovieVideos"] =
                   [kind |-> "content", tag |-> "h4", text |-> VideosJson(route[2], v)]

C17_Witness ==
    /\ route = <<"movies", "2">>
    /\ order = <<"MovieVideos", "MovieDetail">>
    /\ \A c \in Children : pc[c] = "done"
    /\ view["MovieDetail"].text = MovieJson("2", 0)
    /\ view["MovieVideos"].text = VideosJson("2", 1)
====
